---- MODULE Spec2Model ----
(***************************************************************************)
(* SignSpotter backend (src/server.js): one project row, a table of points *)
(* and a WebSocket fan-out.  Every request handler is an async function:   *)
(* each `await` is a scheduling point, so a handler is modelled as a       *)
(* sequence of steps (pc) that interleave with the steps of the other      *)
(* handlers.  The relational store is modelled as PostgreSQL at its        *)
(* default isolation level (READ COMMITTED): a statement outside BEGIN     *)
(* commits at once, a statement inside BEGIN writes to the transaction's   *)
(* pending set and holds row locks until COMMIT or ROLLBACK.               *)
(***************************************************************************)
EXTENDS Naturals, Sequences, FiniteSets, TLC

\* ---------------------------------------------------------------- bounds
NumReqs == 2         \* request handlers that may be in flight together
NumClients == 2      \* WebSocket connections the server may hold
MaxFeatures == 2     \* features of one import body
PoolMax == 2         \* connections the pool hands out before connect() waits
MaxRuns == 2         \* starts of the server process over one database

\* ---------------------------------------------------------------- values
Reqs == 1..NumReqs
Clients == 1..NumClients
Null == "null"             \* SQL NULL / JSON null / a parameter left undefined
Absent == "absent"         \* a key the request body does not carry
Default == "default"       \* the only project id the code ever uses
Ids == {"p1", "p2"}
Urls == {"u1", "u2"}
Dims == {Null, "d1"}
Schemas == {"s1"}
Corners == {"c1"}
Opacities == {"o1"}
\* what a client may send as one point: a label and a geometry
Payloads == {[label |-> "a", geometry |-> "g1"], [label |-> "b", geometry |-> "g2"]}

VARIABLES
  project,     \* table project: a set of rows
  points,      \* table points: a set of rows
  tx,          \* per handler: the open transaction of its connection
  log,         \* per handler: what the store has committed for it (history)
  checkedOut,  \* pool: connections handed out and not released
  clients,     \* wss.clients: readyState of each connection
  kind,        \* per handler: the endpoint it serves, or "idle"
  pc,          \* per handler: the await it is parked at
  body,        \* per handler: req.body / req.params
  conn,        \* per handler: its `client`: "none", "held", "released"
  err,         \* per handler: what was thrown into its catch, or "none"
  status,      \* per handler: the HTTP status sent, or "none"
  reply,       \* per handler: the JSON body of a 200 answer to GET
  sent,        \* per handler: the messages its broadcast sent, per client
  schema,      \* the tables and columns the database has
  boot         \* initializeDatabase: the await it is parked at, and history

vars == <<project, points, tx, log, checkedOut, clients, kind, pc, body, conn,
          err, status, reply, sent, schema, boot>>

\* ---------------------------------------------------------------- rows
ProjectRow(url, w, h, fields, corners) ==
  [id |-> Default, plan_data_url |-> url, plan_width |-> w, plan_height |-> h,
   point_schema |-> fields, plan_corners |-> corners]

PointRow(id, pid, props, geom) ==
  [id |-> id, project_id |-> pid, properties |-> props, geometry |-> geom]

\* { ...properties }; delete propertiesToStore.id
StripId(props) == [k \in (DOMAIN props) \ {"id"} |-> props[k]]

\* req.body.properties.id: undefined when the key is missing (sent as NULL)
FeatureId(props) == IF "id" \in DOMAIN props THEN props["id"] ELSE Null

\* { ...row.properties, id: row.id }
WithId(props, id) ==
  [k \in (DOMAIN props) \cup {"id"} |-> IF k = "id" THEN id ELSE props[k]]

NoTx == [active |-> FALSE, proj |-> {}, del |-> {}, ins |-> {}]

NoLog == [commits |-> 0, wrote |-> FALSE, row |-> {}, seen |-> {}, torn |-> FALSE]

\* ---------------------------------------------------------------- schema
\* What the database has: its tables, and the columns that later revisions
\* of the server added to them
SchemaFull ==
  {"project", "points", "points.project_id", "project.point_schema",
   "project.plan_corners"}

\* A statement is accepted only if every table and column it names exists
Has(names) == names \subseteq schema

\* The columns of table project an UPDATE's SET list names
Named(asg) ==
  {"project"} \cup {"project." \o c : c \in DOMAIN asg \cap {"point_schema", "plan_corners"}}

\* ---------------------------------------------------------------- store
\* UPDATE ... SET: the row with the assigned columns replaced
Assign(row, asg) ==
  [c \in DOMAIN row |-> IF c \in DOMAIN asg THEN asg[c] ELSE row[c]]

\* A row another connection's open transaction has written is locked: a
\* statement that must write it waits until that transaction ends.
ProjectLockedByOther(r) == \E o \in Reqs \ {r} : tx[o].proj # {}

PointLockedByOther(r, id) ==
  \E o \in Reqs \ {r} : id \in tx[o].del \/ (\E q \in tx[o].ins : q.id = id)

ProjectExists == \E p \in project : p.id = Default

\* History kept for a fetch between its two SELECTs: the contents table
\* points had, since the first SELECT, in the committed states whose project
\* row is the one that SELECT returned
RECURSIVE ObserveUpTo(_, _)
ObserveUpTo(l, n) ==
  IF n = 0 THEN l
  ELSE ObserveUpTo(
         [l EXCEPT ![n].seen =
            IF /\ kind[n] = "fetch" /\ pc[n] = "points"
               /\ {p \in project' : p.id = Default} = l[n].row
              THEN @ \cup {points'}
              ELSE @],
         n - 1)

Observe(l) == ObserveUpTo(l, NumReqs)

\* History of handler r's connection: `commits` counts the statements
\* (outside BEGIN) and transactions the store has committed for it, `wrote`
\* tells whether any of them changed a committed row.
Logged(r, committed) ==
  log' = Observe([log EXCEPT ![r] =
                    [commits |-> @.commits + (IF committed THEN 1 ELSE 0),
                     wrote |-> @.wrote \/ project' # project \/ points' # points,
                     row |-> @.row, seen |-> @.seen, torn |-> @.torn]])

\* UPDATE project SET <asg> WHERE id = 'default'
SqlUpdateProject(r, asg) ==
  /\ Has(Named(asg))
  /\ ~ProjectLockedByOther(r)
  /\ IF tx[r].active
       THEN LET cur == IF tx[r].proj # {} THEN tx[r].proj
                       ELSE {p \in project : p.id = Default}
            IN  /\ tx' = [tx EXCEPT ![r].proj = {Assign(p, asg) : p \in cur}]
                /\ UNCHANGED project
       ELSE /\ project' = {IF p.id = Default THEN Assign(p, asg) ELSE p :
                           p \in project}
            /\ UNCHANGED tx
  /\ UNCHANGED points
  /\ Logged(r, ~tx[r].active)

\* DELETE FROM points WHERE project_id = 'default'
SqlDeleteProjectPoints(r) ==
  LET victims == {q \in points : q.project_id = Default /\ q.id \notin tx[r].del}
  IN  /\ Has({"points", "points.project_id"})
      /\ \A q \in victims : ~PointLockedByOther(r, q.id)
      /\ IF tx[r].active
           THEN /\ tx' = [tx EXCEPT
                            ![r].del = @ \cup {q.id : q \in victims},
                            ![r].ins = {q \in @ : q.project_id # Default}]
                /\ UNCHANGED points
           ELSE /\ points' = points \ victims
                /\ UNCHANGED tx
      /\ UNCHANGED project
      /\ Logged(r, ~tx[r].active)

\* INSERT INTO points (id, project_id, properties, geometry) VALUES (...):
\* rejected on a NULL or duplicate primary key or a missing project row
InsertRejected(r, row) ==
  \/ row.id = Null
  \/ \E q \in points : q.id = row.id /\ q.id \notin tx[r].del
  \/ \E q \in tx[r].ins : q.id = row.id
  \/ ~ProjectExists

SqlInsertPoint(r, row) ==
  /\ Has({"points", "points.project_id"})
  /\ ~PointLockedByOther(r, row.id)
  /\ ~InsertRejected(r, row)
  /\ IF tx[r].active
       THEN /\ tx' = [tx EXCEPT ![r].ins = @ \cup {row}]
            /\ UNCHANGED points
       ELSE /\ points' = points \cup {row}
            /\ UNCHANGED tx
  /\ UNCHANGED project
  /\ Logged(r, ~tx[r].active)

\* INSERT ... ON CONFLICT (id) DO UPDATE SET properties = $2, geometry = $3
\* (only ever issued outside a transaction)
UpsertRejected(id) ==
  \/ id = Null
  \/ (~\E q \in points : q.id = id) /\ ~ProjectExists

\* (mutant) ON CONFLICT (id) DO NOTHING: the first write of an id wins
SqlUpsertKeepsOld(r, id, props, geom) ==
  /\ Has({"points", "points.project_id"})
  /\ ~PointLockedByOther(r, id)
  /\ ~UpsertRejected(id)
  /\ points' = IF \E q \in points : q.id = id
                 THEN points
                 ELSE points \cup {PointRow(id, Default, props, geom)}
  /\ UNCHANGED <<project, tx>>
  /\ Logged(r, TRUE)

SqlUpsertPoint(r, id, props, geom) ==
  /\ Has({"points", "points.project_id"})
  /\ ~PointLockedByOther(r, id)
  /\ ~UpsertRejected(id)
  /\ points' = IF \E q \in points : q.id = id
                 THEN {IF q.id = id
                         THEN [q EXCEPT !.properties = props, !.geometry = geom]
                         ELSE q : q \in points}
                 ELSE points \cup {PointRow(id, Default, props, geom)}
  /\ UNCHANGED <<project, tx>>
  /\ Logged(r, TRUE)

\* DELETE FROM points WHERE id = $1
SqlDeletePoint(r, id) ==
  /\ Has({"points"})
  /\ ~PointLockedByOther(r, id)
  /\ points' = {q \in points : q.id # id}
  /\ UNCHANGED <<project, tx>>
  /\ Logged(r, TRUE)

\* BEGIN
SqlBegin(r) ==
  /\ tx' = [tx EXCEPT ![r] = [NoTx EXCEPT !.active = TRUE]]
  /\ UNCHANGED <<project, points, log>>

\* COMMIT: the pending writes become the committed rows
SqlCommit(r) ==
  /\ project' = IF tx[r].proj # {}
                  THEN {p \in project : p.id # Default} \cup tx[r].proj
                  ELSE project
  /\ points' = {q \in points : q.id \notin tx[r].del} \cup tx[r].ins
  /\ tx' = [tx EXCEPT ![r] = NoTx]
  /\ Logged(r, TRUE)

\* ROLLBACK, or the server dropping the transaction of a lost connection
SqlRollback(r) ==
  /\ tx' = [tx EXCEPT ![r] = NoTx]
  /\ UNCHANGED <<project, points, log>>

\* ---------------------------------------------------------------- pool
\* pool.connect() resolves once a connection is free
Acquire(r) ==
  /\ checkedOut < PoolMax
  /\ checkedOut' = checkedOut + 1
  /\ conn' = [conn EXCEPT ![r] = "held"]

\* client.release()
Release(r) ==
  /\ checkedOut' = checkedOut - 1
  /\ conn' = [conn EXCEPT ![r] = "released"]

\* ---------------------------------------------------------------- broadcast
\* (mutant) no readyState test: every socket of wss.clients is sent to
EveryClient == {c \in Clients : clients[c] # "GONE"}

\* client.readyState === client.OPEN
OpenClients == {c \in Clients : clients[c] = "OPEN"}

\* wss.clients.forEach: every open client up to the one whose send() throws
\* (thrower = 0: none throws)
Receivers(thrower) == {c \in OpenClients : thrower = 0 \/ c < thrower}

Broadcast(r, type, payload, thrower) ==
  sent' = [sent EXCEPT ![r] =
             [c \in Clients |->
                IF c \in Receivers(thrower)
                  THEN Append(sent[r][c], [type |-> type, payload |-> payload])
                  ELSE sent[r][c]]]

Throwers == {0} \cup OpenClients

\* ---------------------------------------------------------------- handlers
NoSent == [c \in Clients |-> <<>>]

Goto(r, p) == pc' = [pc EXCEPT ![r] = p]

\* res.status(st)...: the handler's last step (st = "none": it ended without
\* answering, its promise rejected with nobody to catch it)
Respond(r, st, e) ==
  /\ status' = [status EXCEPT ![r] = st]
  /\ err' = [err EXCEPT ![r] = e]
  /\ pc' = [pc EXCEPT ![r] = "done"]

\* A request arrives and takes the lowest free handler slot.
Arrive(r, k, b, p) ==
  /\ pc[r] = "idle"
  /\ \A o \in Reqs : o < r => pc[o] # "idle"
  /\ kind' = [kind EXCEPT ![r] = k]
  /\ body' = [body EXCEPT ![r] = b]
  /\ pc' = [pc EXCEPT ![r] = p]
  /\ UNCHANGED <<project, points, tx, log, checkedOut, clients, conn, reply, sent, schema, boot>>

\* The handlers whose pool.connect() stands inside their try block
ConnectInTry == {"fetch", "settings", "upsert", "delete"}

FirstQuery(k) == IF k \in {"plan", "import"} THEN "begin" ELSE "query"

\* const client = await pool.connect()
Connect(r) ==
  /\ pc[r] = "connect"
  /\ \/ /\ Acquire(r)
        /\ Goto(r, FirstQuery(kind[r]))
        /\ UNCHANGED <<status, err>>
     \/ /\ Respond(r, IF kind[r] \in ConnectInTry THEN "500" ELSE "none", "connect")
        /\ UNCHANGED <<checkedOut, conn>>
  /\ UNCHANGED <<project, points, tx, log, clients, kind, body, reply, sent, schema, boot>>

\* A handler with a transaction: the catch block's first await
Caught(r, e) ==
  /\ pc' = [pc EXCEPT ![r] = "rollback"]
  /\ err' = [err EXCEPT ![r] = e]
  /\ UNCHANGED status

\* catch { await client.query('ROLLBACK'); res.status(500) } finally { release }
\* A ROLLBACK that fails throws out of the catch block: finally still runs,
\* no answer is sent.
Rollback(r) ==
  /\ pc[r] = "rollback"
  /\ SqlRollback(r)
  /\ Release(r)
  /\ \/ Respond(r, "500", err[r])
     \/ Respond(r, "none", err[r])
  /\ UNCHANGED <<clients, kind, body, reply, sent, schema, boot>>

\* ---- GET /api/project
FetchStart(r) == Arrive(r, "fetch", Null, "connect") /\ UNCHANGED <<status, err>>

\* projectRes.rows[0]
FirstRow(rows) == IF rows = {} THEN Null ELSE CHOOSE p \in rows : TRUE

\* await client.query("SELECT * FROM project WHERE id = 'default'")
FetchProject(r) ==
  /\ kind[r] = "fetch" /\ pc[r] = "query"
  /\ \/ /\ Has({"project"})
        /\ reply' = [reply EXCEPT ![r] =
                       [project |-> FirstRow({p \in project : p.id = Default})]]
        /\ log' = [log EXCEPT ![r].row = {p \in project : p.id = Default},
                              ![r].seen = {points}]
        /\ Goto(r, "points")
        /\ UNCHANGED <<status, err>>
     \/ /\ Respond(r, "500", "store")
        /\ UNCHANGED <<reply, log>>
  /\ UNCHANGED <<project, points, tx, checkedOut, clients, kind, body, conn, sent,
                 schema, boot>>

\* pointsRes.rows.map(row => ({ properties: {...row.properties, id: row.id}, geometry }))
Features(rows) ==
  {[properties |-> WithId(q.properties, q.id), geometry |-> q.geometry] : q \in rows}

\* await client.query("SELECT ... FROM points WHERE project_id = 'default'");
\* client.release(); res.json({ project, geojsonData })
FetchPoints(r) ==
  /\ kind[r] = "fetch" /\ pc[r] = "points"
  /\ \/ /\ Has({"points", "points.project_id"})
        /\ reply' = [reply EXCEPT ![r] =
                       [project |-> reply[r].project,
                        features |-> Features({q \in points : q.project_id = Default})]]
        /\ log' = [log EXCEPT ![r].row = {}, ![r].seen = {},
                              ![r].torn = points \notin log[r].seen]
        /\ Release(r)
        /\ Respond(r, "200", "none")
     \/ /\ Respond(r, "500", "store")
        /\ UNCHANGED <<reply, log, checkedOut, conn>>
  /\ UNCHANGED <<project, points, tx, clients, kind, body, sent, schema, boot>>

\* ---- POST /api/project/plan
PlanBodies ==
  {[planDataUrl |-> "u1", width |-> "d1", height |-> "d1"],
   [planDataUrl |-> "u2", width |-> Null, height |-> Null]}

PlanStart(r) ==
  \E b \in PlanBodies : Arrive(r, "plan", b, "connect") /\ UNCHANGED <<status, err>>

\* (mutant) the handler never issues BEGIN: every statement commits alone
PlanBeginOmitted(r) ==
  /\ kind[r] = "plan" /\ pc[r] = "begin"
  /\ \/ /\ Goto(r, "update")
        /\ UNCHANGED <<status, err>>
     \/ Caught(r, "store")
  /\ UNCHANGED <<project, points, tx, log, checkedOut, clients, kind, body, conn,
                 reply, sent, schema, boot>>

\* await client.query('BEGIN')
PlanBegin(r) ==
  /\ kind[r] = "plan" /\ pc[r] = "begin"
  /\ \/ /\ SqlBegin(r)
        /\ Goto(r, "update")
        /\ UNCHANGED <<status, err>>
     \/ /\ Caught(r, "store")
        /\ UNCHANGED <<project, points, tx, log>>
  /\ UNCHANGED <<checkedOut, clients, kind, body, conn, reply, sent, schema, boot>>

\* SET plan_data_url = $1, plan_width = $2, plan_height = $3, plan_corners = NULL
PlanAssignment(b) ==
  [plan_data_url |-> b.planDataUrl, plan_width |-> b.width,
   plan_height |-> b.height, plan_corners |-> Null]

PlanUpdate(r) ==
  /\ kind[r] = "plan" /\ pc[r] = "update"
  /\ \/ /\ SqlUpdateProject(r, PlanAssignment(body[r]))
        /\ Goto(r, "delete")
        /\ UNCHANGED <<status, err>>
     \/ /\ Caught(r, "store")
        /\ UNCHANGED <<project, points, tx, log>>
  /\ UNCHANGED <<checkedOut, clients, kind, body, conn, reply, sent, schema, boot>>

\* await client.query("DELETE FROM points WHERE project_id = 'default'")
PlanDelete(r) ==
  /\ kind[r] = "plan" /\ pc[r] = "delete"
  /\ \/ /\ SqlDeleteProjectPoints(r)
        /\ Goto(r, "commit")
        /\ UNCHANGED <<status, err>>
     \/ /\ Caught(r, "store")
        /\ UNCHANGED <<project, points, tx, log>>
  /\ UNCHANGED <<checkedOut, clients, kind, body, conn, reply, sent, schema, boot>>

\* await client.query('COMMIT')
PlanCommit(r) ==
  /\ kind[r] = "plan" /\ pc[r] = "commit"
  /\ \/ /\ SqlCommit(r)
        /\ Goto(r, "after")
        /\ UNCHANGED <<status, err>>
     \/ /\ Caught(r, "store")
        /\ UNCHANGED <<project, points, tx, log>>
  /\ UNCHANGED <<checkedOut, clients, kind, body, conn, reply, sent, schema, boot>>

\* broadcast({ type: 'plan_update', ... }); res.status(200); finally release.
\* A throw of broadcast lands in the same catch block as a failed statement.
PlanAfter(r) ==
  /\ kind[r] = "plan" /\ pc[r] = "after"
  /\ \E t \in Throwers :
       /\ Broadcast(r, "plan_update", body[r], t)
       /\ IF t = 0
            THEN Respond(r, "200", "none") /\ Release(r)
            ELSE Caught(r, "send") /\ UNCHANGED <<checkedOut, conn>>
  /\ UNCHANGED <<project, points, tx, log, clients, kind, body, reply, schema, boot>>

\* ---- POST /api/project/settings
SettingsBodies ==
  [point_schema : {Absent, Null} \cup Schemas,
   plan_corners : {Absent, Null} \cup Corners,
   opacity : {Absent} \cup Opacities]

\* if (point_schema) / if (plan_corners)
Truthy(v) == v \notin {Absent, Null}

\* (mutant) a fixed SET list: a field the body lacks is written as NULL
SettingsAssignmentAll(b) ==
  [c \in {"point_schema", "plan_corners"} |-> IF Truthy(b[c]) THEN b[c] ELSE Null]

\* updates / values: the columns the dynamic UPDATE assigns
SettingsAssignment(b) ==
  [c \in {c \in {"point_schema", "plan_corners"} : Truthy(b[c])} |-> b[c]]

\* (mutant) no test of updates.length: every body goes on to the store
SettingsStartUnchecked(r) ==
  \E b \in SettingsBodies :
    /\ Arrive(r, "settings", b, "connect")
    /\ UNCHANGED <<status, err>>

\* if (updates.length === 0) return res.status(400)
SettingsStart(r) ==
  \E b \in SettingsBodies :
    IF DOMAIN SettingsAssignment(b) = {}
      THEN /\ Arrive(r, "settings", b, "done")
           /\ status' = [status EXCEPT ![r] = "400"]
           /\ UNCHANGED err
      ELSE /\ Arrive(r, "settings", b, "connect")
           /\ UNCHANGED <<status, err>>

\* await client.query(query, values)
SettingsQuery(r) ==
  /\ kind[r] = "settings" /\ pc[r] = "query"
  /\ \/ /\ SqlUpdateProject(r, SettingsAssignment(body[r]))
        /\ Goto(r, "after")
        /\ UNCHANGED <<status, err>>
     \/ /\ Respond(r, "500", "store")
        /\ UNCHANGED <<project, points, tx, log>>
  /\ UNCHANGED <<checkedOut, clients, kind, body, conn, reply, sent, schema, boot>>

\* client.release(); broadcast({ type: 'settings_update', payload: req.body })
SettingsAfter(r) ==
  /\ kind[r] = "settings" /\ pc[r] = "after"
  /\ Release(r)
  /\ \E t \in Throwers :
       /\ Broadcast(r, "settings_update", body[r], t)
       /\ IF t = 0 THEN Respond(r, "200", "none") ELSE Respond(r, "500", "send")
  /\ UNCHANGED <<project, points, tx, log, clients, kind, body, reply, schema, boot>>

\* ---- POST /api/points
PointProps == {[id |-> i, label |-> v.label] : i \in Ids, v \in Payloads}
                \cup {[label |-> v.label] : v \in Payloads}

GeometryOf(props) == (CHOOSE v \in Payloads : v.label = props["label"]).geometry

UpsertBodies == {[properties |-> p, geometry |-> GeometryOf(p)] : p \in PointProps}

\* const featureId = req.body.properties.id stands before the try block: a
\* body without a properties object throws a TypeError nothing catches, and
\* the handler ends without answering
UpsertStart(r) ==
  \/ \E b \in UpsertBodies : Arrive(r, "upsert", b, "connect") /\ UNCHANGED <<status, err>>
  \/ /\ Arrive(r, "upsert", [properties |-> Absent, geometry |-> "g1"], "done")
     /\ err' = [err EXCEPT ![r] = "type"]
     /\ UNCHANGED status

\* await client.query(query, [featureId, propertiesToStore, req.body.geometry])
UpsertQuery(r) ==
  /\ kind[r] = "upsert" /\ pc[r] = "query"
  /\ \/ /\ SqlUpsertPoint(r, FeatureId(body[r].properties),
                          StripId(body[r].properties), body[r].geometry)
        /\ Goto(r, "after")
        /\ UNCHANGED <<status, err>>
     \/ /\ UpsertRejected(FeatureId(body[r].properties))
        /\ Respond(r, "500", "store")
        /\ UNCHANGED <<project, points, tx, log>>
     \/ /\ Respond(r, "500", "store")
        /\ UNCHANGED <<project, points, tx, log>>
  /\ UNCHANGED <<checkedOut, clients, kind, body, conn, reply, sent, schema, boot>>

\* client.release(); broadcast(...); res.status(200)
UpsertAfter(r) ==
  /\ kind[r] = "upsert" /\ pc[r] = "after"
  /\ Release(r)
  /\ \E t \in Throwers :
       /\ Broadcast(r, "point_update", body[r], t)
       /\ IF t = 0 THEN Respond(r, "200", "none") ELSE Respond(r, "500", "send")
  /\ UNCHANGED <<project, points, tx, log, clients, kind, body, reply, schema, boot>>

\* ---- DELETE /api/points/:id
DeleteStart(r) ==
  \E i \in Ids : Arrive(r, "delete", [id |-> i], "connect") /\ UNCHANGED <<status, err>>

\* (mutant) a DELETE that matched no row is answered as a failure
DeleteQueryStrict(r) ==
  /\ kind[r] = "delete" /\ pc[r] = "query"
  /\ \/ /\ \E q \in points : q.id = body[r].id
        /\ SqlDeletePoint(r, body[r].id)
        /\ Goto(r, "after")
        /\ UNCHANGED <<status, err>>
     \/ /\ ~\E q \in points : q.id = body[r].id
        /\ Respond(r, "404", "notfound")
        /\ UNCHANGED <<project, points, tx, log>>
     \/ /\ Respond(r, "500", "store")
        /\ UNCHANGED <<project, points, tx, log>>
  /\ UNCHANGED <<checkedOut, clients, kind, body, conn, reply, sent, schema, boot>>

\* await client.query('DELETE FROM points WHERE id = $1', [id])
DeleteQuery(r) ==
  /\ kind[r] = "delete" /\ pc[r] = "query"
  /\ \/ /\ SqlDeletePoint(r, body[r].id)
        /\ Goto(r, "after")
        /\ UNCHANGED <<status, err>>
     \/ /\ Respond(r, "500", "store")
        /\ UNCHANGED <<project, points, tx, log>>
  /\ UNCHANGED <<checkedOut, clients, kind, body, conn, reply, sent, schema, boot>>

\* client.release(); broadcast({ type: 'point_delete', payload: { id } })
DeleteAfter(r) ==
  /\ kind[r] = "delete" /\ pc[r] = "after"
  /\ Release(r)
  /\ \E t \in Throwers :
       /\ Broadcast(r, "point_delete", body[r], t)
       /\ IF t = 0 THEN Respond(r, "200", "none") ELSE Respond(r, "500", "send")
  /\ UNCHANGED <<project, points, tx, log, clients, kind, body, reply, schema, boot>>

\* ---- POST /api/project/import
\* req.body.project (Absent: the body carries none)
ImportProjects ==
  {[plan_data_url |-> "u1", plan_width |-> "d1", plan_height |-> "d1",
    point_schema |-> "s1", plan_corners |-> "c1"],
   [plan_data_url |-> "u2", plan_width |-> Null, plan_height |-> Null,
    point_schema |-> Null, plan_corners |-> Null]}

\* The body is { project, geojsonData: { features } }: `total` features, of
\* which the loop has not reached `left`; each feature's content is drawn
\* when the loop reaches it (a client may have sent any list).
ImportBodies ==
  {[hasProject |-> TRUE, project |-> p, total |-> n, left |-> n] :
     p \in ImportProjects, n \in 0..MaxFeatures}
  \cup {[hasProject |-> FALSE, project |-> [plan_data_url |-> Null],
          total |-> n, left |-> n] : n \in 0..MaxFeatures}

ImportStart(r) ==
  \E b \in ImportBodies : Arrive(r, "import", b, "connect") /\ UNCHANGED <<status, err>>

\* (mutant) the handler never issues BEGIN: every statement commits alone
ImportBeginOmitted(r) ==
  /\ kind[r] = "import" /\ pc[r] = "begin"
  /\ \/ /\ Goto(r, "update")
        /\ UNCHANGED <<status, err>>
     \/ Caught(r, "store")
  /\ UNCHANGED <<project, points, tx, log, checkedOut, clients, kind, body, conn,
                 reply, sent, schema, boot>>

\* await client.query('BEGIN')
ImportBegin(r) ==
  /\ kind[r] = "import" /\ pc[r] = "begin"
  /\ \/ /\ SqlBegin(r)
        /\ Goto(r, "update")
        /\ UNCHANGED <<status, err>>
     \/ /\ Caught(r, "store")
        /\ UNCHANGED <<project, points, tx, log>>
  /\ UNCHANGED <<checkedOut, clients, kind, body, conn, reply, sent, schema, boot>>

\* SET plan_data_url = $1, ..., point_schema = $4, plan_corners = $5;
\* project.plan_data_url throws a TypeError when the body has no project
ImportUpdate(r) ==
  /\ kind[r] = "import" /\ pc[r] = "update"
  /\ \/ /\ body[r].hasProject
        /\ SqlUpdateProject(r, body[r].project)
        /\ Goto(r, "delete")
        /\ UNCHANGED <<status, err>>
     \/ /\ ~body[r].hasProject
        /\ Caught(r, "type")
        /\ UNCHANGED <<project, points, tx, log>>
     \/ /\ body[r].hasProject
        /\ Caught(r, "store")
        /\ UNCHANGED <<project, points, tx, log>>
  /\ UNCHANGED <<checkedOut, clients, kind, body, conn, reply, sent, schema, boot>>

\* DELETE FROM points ...; then the loop, or COMMIT when there is no feature
ImportDelete(r) ==
  /\ kind[r] = "import" /\ pc[r] = "delete"
  /\ \/ /\ SqlDeleteProjectPoints(r)
        /\ Goto(r, IF body[r].left = 0 THEN "commit" ELSE "insert")
        /\ UNCHANGED <<status, err>>
     \/ /\ Caught(r, "store")
        /\ UNCHANGED <<project, points, tx, log>>
  /\ UNCHANGED <<checkedOut, clients, kind, body, conn, reply, sent, schema, boot>>

\* One turn of the loop: const { id, ...properties } = feature.properties
\* (a TypeError when the feature has no properties), then the INSERT.
ImportInsert(r) ==
  /\ kind[r] = "import" /\ pc[r] = "insert"
  /\ \/ \E p \in PointProps :
          LET row == PointRow(FeatureId(p), Default, StripId(p), GeometryOf(p))
          IN  \/ /\ SqlInsertPoint(r, row)
                 /\ body' = [body EXCEPT ![r].left = @ - 1]
                 /\ Goto(r, IF body[r].left = 1 THEN "commit" ELSE "insert")
                 /\ UNCHANGED <<status, err>>
              \/ /\ InsertRejected(r, row)
                 /\ Caught(r, "store")
                 /\ UNCHANGED <<project, points, tx, log, body>>
     \/ /\ Caught(r, "type")
        /\ UNCHANGED <<project, points, tx, log, body>>
     \/ /\ Caught(r, "store")
        /\ UNCHANGED <<project, points, tx, log, body>>
  /\ UNCHANGED <<checkedOut, clients, kind, conn, reply, sent, schema, boot>>

\* (mutant) the event is broadcast before COMMIT is awaited
ImportCommitAnnounced(r) ==
  /\ kind[r] = "import" /\ pc[r] = "commit"
  /\ Broadcast(r, "project_import", body[r], 0)
  /\ \/ /\ SqlCommit(r)
        /\ Goto(r, "after")
        /\ UNCHANGED <<status, err>>
     \/ /\ Caught(r, "store")
        /\ UNCHANGED <<project, points, tx, log>>
  /\ UNCHANGED <<checkedOut, clients, kind, body, conn, reply, schema, boot>>

\* await client.query('COMMIT')
ImportCommit(r) ==
  /\ kind[r] = "import" /\ pc[r] = "commit"
  /\ \/ /\ SqlCommit(r)
        /\ Goto(r, "after")
        /\ UNCHANGED <<status, err>>
     \/ /\ Caught(r, "store")
        /\ UNCHANGED <<project, points, tx, log>>
  /\ UNCHANGED <<checkedOut, clients, kind, body, conn, reply, sent, schema, boot>>

\* broadcast({ type: 'project_import', payload: req.body }); res.status(200)
ImportAfter(r) ==
  /\ kind[r] = "import" /\ pc[r] = "after"
  /\ \E t \in Throwers :
       /\ Broadcast(r, "project_import", body[r], t)
       /\ IF t = 0
            THEN Respond(r, "200", "none") /\ Release(r)
            ELSE Caught(r, "send") /\ UNCHANGED <<checkedOut, conn>>
  /\ UNCHANGED <<project, points, tx, log, clients, kind, body, reply, schema, boot>>

\* ---- the answered (or abandoned) request leaves; its slot serves the next
Recycle(r) ==
  /\ pc[r] = "done"
  /\ pc' = [pc EXCEPT ![r] = "idle"]
  /\ kind' = [kind EXCEPT ![r] = "idle"]
  /\ body' = [body EXCEPT ![r] = Null]
  /\ conn' = [conn EXCEPT ![r] = "none"]
  /\ err' = [err EXCEPT ![r] = "none"]
  /\ status' = [status EXCEPT ![r] = "none"]
  /\ reply' = [reply EXCEPT ![r] = Null]
  /\ sent' = [sent EXCEPT ![r] = NoSent]
  /\ log' = [log EXCEPT ![r] = NoLog]
  /\ UNCHANGED <<project, points, tx, checkedOut, clients, schema, boot>>

\* ---- WebSocket connections
\* wss.on('connection'): a new socket joins wss.clients, open
ClientConnect(c) ==
  /\ clients[c] = "GONE"
  /\ clients' = [clients EXCEPT ![c] = "OPEN"]
  /\ UNCHANGED <<project, points, tx, log, checkedOut, kind, pc, body, conn, err,
                 status, reply, sent, schema, boot>>

\* the closing handshake starts: the socket is still in wss.clients
ClientClosing(c) ==
  /\ clients[c] = "OPEN"
  /\ clients' = [clients EXCEPT ![c] = "CLOSING"]
  /\ UNCHANGED <<project, points, tx, log, checkedOut, kind, pc, body, conn, err,
                 status, reply, sent, schema, boot>>

\* ws.on('close'): the socket leaves wss.clients
ClientClose(c) ==
  /\ clients[c] \in {"OPEN", "CLOSING"}
  /\ clients' = [clients EXCEPT ![c] = "GONE"]
  /\ UNCHANGED <<project, points, tx, log, checkedOut, kind, pc, body, conn, err,
                 status, reply, sent, schema, boot>>

\* ---------------------------------------------------------------- system
\* initializeDatabase has returned: `run` counts its runs, `ok` tells whether
\* the last one reached its end without catching anything, `before` is the
\* store it started from (history)
BootDone ==
  [pc |-> "done", run |-> 1, ok |-> TRUE, was |-> FALSE,
   before |-> [schema |-> {}, project |-> {}, points |-> {}]]

\* No request in flight, no socket connected, every connection in the pool
Idle ==
  /\ tx = [r \in Reqs |-> NoTx]
  /\ log = [r \in Reqs |-> NoLog]
  /\ checkedOut = 0
  /\ clients = [c \in Clients |-> "GONE"]
  /\ kind = [r \in Reqs |-> "idle"]
  /\ pc = [r \in Reqs |-> "idle"]
  /\ body = [r \in Reqs |-> Null]
  /\ conn = [r \in Reqs |-> "none"]
  /\ err = [r \in Reqs |-> "none"]
  /\ status = [r \in Reqs |-> "none"]
  /\ reply = [r \in Reqs |-> Null]
  /\ sent = [r \in Reqs |-> NoSent]

\* The store as initializeDatabase leaves a fresh database: the default
\* project row with every other column NULL, and no points.
Init ==
  /\ project = {ProjectRow(Null, Null, Null, Null, Null)}
  /\ points = {}
  /\ Idle
  /\ schema = SchemaFull
  /\ boot = BootDone

\* ---- initializeDatabase
\* ALTER TABLE ... ADD COLUMN: every existing row gets the column, NULL
Widen(row, col) ==
  [c \in (DOMAIN row) \cup {col} |-> IF c \in DOMAIN row THEN row[c] ELSE Null]

\* The databases a starting server may find: none of the tables (a new
\* database), the points table of the first revision (no project_id), the
\* tables of the second revision (project without point_schema and
\* plan_corners), or the tables of this revision
BootStores ==
  {[schema |-> {}, project |-> {}, points |-> {}]}
  \cup {[schema |-> {"points"}, project |-> {}, points |-> ps] :
          ps \in {{}, {[id |-> "p1", properties |-> [label |-> "a"],
                        geometry |-> "g1"]}}}
  \cup {[schema |-> {"project", "points", "points.project_id"},
          project |-> {[id |-> Default, plan_data_url |-> "u1",
                        plan_width |-> "d1", plan_height |-> "d1"]},
          points |-> ps] :
          ps \in {{}, {PointRow("p1", Default, [label |-> "a"], "g1")}}}
  \cup {[schema |-> SchemaFull,
          project |-> {ProjectRow("u1", "d1", "d1", "s1", Null)},
          points |-> {PointRow("p1", Default, [label |-> "a"], "g1")}]}

Store == [schema |-> schema, project |-> project, points |-> points]

BootGoto(p) == boot' = [boot EXCEPT !.pc = p]

\* catch (err) { console.error(...) } finally { client.release() }
BootCaught ==
  /\ boot' = [boot EXCEPT !.pc = "done", !.ok = FALSE]
  /\ checkedOut' = checkedOut - 1
  /\ UNCHANGED <<schema, project, points, log>>

\* An awaited statement of initializeDatabase was accepted: on to `next`
BootNext(next) ==
  /\ BootGoto(next)
  /\ log' = Observe(log)
  /\ UNCHANGED checkedOut

\* const client = await pool.connect(): outside the try block
BootConnect ==
  /\ boot.pc = "connect"
  /\ \/ /\ checkedOut < PoolMax
        /\ checkedOut' = checkedOut + 1
        /\ BootGoto("createProject")
     \/ /\ boot' = [boot EXCEPT !.pc = "done", !.ok = FALSE]
        /\ UNCHANGED checkedOut
  /\ UNCHANGED <<project, points, tx, log, clients, kind, pc, body, conn, err,
                 status, reply, sent, schema>>

\* CREATE TABLE IF NOT EXISTS project (id, plan_data_url, plan_width,
\* plan_height, point_schema, plan_corners)
BootCreateProject ==
  /\ boot.pc = "createProject"
  /\ \/ /\ schema' = IF "project" \in schema THEN schema
                      ELSE schema \cup {"project", "project.point_schema",
                                        "project.plan_corners"}
        /\ UNCHANGED <<project, points>>
        /\ BootNext("createPoints")
     \/ BootCaught
  /\ UNCHANGED <<tx, clients, kind, pc, body, conn, err, status, reply, sent>>

\* (mutant) DROP TABLE IF EXISTS points; CREATE TABLE points (...)
BootRecreatePoints ==
  /\ boot.pc = "createPoints"
  /\ \/ /\ schema' = (schema \ {"points.project_id"}) \cup {"points"}
        /\ points' = {}
        /\ UNCHANGED project
        /\ BootNext("checkPoints")
     \/ BootCaught
  /\ UNCHANGED <<tx, clients, kind, pc, body, conn, err, status, reply, sent>>

\* CREATE TABLE IF NOT EXISTS points (id, properties, geometry)
BootCreatePoints ==
  /\ boot.pc = "createPoints"
  /\ \/ /\ schema' = schema \cup {"points"}
        /\ UNCHANGED <<project, points>>
        /\ BootNext("checkPoints")
     \/ BootCaught
  /\ UNCHANGED <<tx, clients, kind, pc, body, conn, err, status, reply, sent>>

\* SELECT column_name FROM information_schema.columns WHERE
\* table_name='points' AND column_name='project_id'; if (rowCount === 0)
BootCheckPoints ==
  /\ boot.pc = "checkPoints"
  /\ \/ /\ UNCHANGED <<schema, project, points>>
        /\ BootNext(IF "points.project_id" \in schema
                      THEN "checkProject" ELSE "alterPoints")
     \/ BootCaught
  /\ UNCHANGED <<tx, clients, kind, pc, body, conn, err, status, reply, sent>>

\* ALTER TABLE points ADD COLUMN project_id VARCHAR(50) REFERENCES project(id)
BootAlterPoints ==
  /\ boot.pc = "alterPoints"
  /\ \/ /\ Has({"project", "points"}) /\ "points.project_id" \notin schema
        /\ schema' = schema \cup {"points.project_id"}
        /\ points' = {Widen(q, "project_id") : q \in points}
        /\ UNCHANGED project
        /\ BootNext("checkProject")
     \/ BootCaught
  /\ UNCHANGED <<tx, clients, kind, pc, body, conn, err, status, reply, sent>>

\* SELECT ... WHERE table_name='project' AND column_name IN ('point_schema',
\* 'plan_corners'); if (rowCount < 2)
BootCheckProject ==
  /\ boot.pc = "checkProject"
  /\ \/ /\ UNCHANGED <<schema, project, points>>
        /\ BootNext(IF {"project.point_schema", "project.plan_corners"} \subseteq schema
                      THEN "insert" ELSE "alterSchema")
     \/ BootCaught
  /\ UNCHANGED <<tx, clients, kind, pc, body, conn, err, status, reply, sent>>

\* ALTER TABLE project ADD COLUMN IF NOT EXISTS point_schema JSONB
BootAlterSchema ==
  /\ boot.pc = "alterSchema"
  /\ \/ /\ Has({"project"})
        /\ schema' = schema \cup {"project.point_schema"}
        /\ project' = {Widen(p, "point_schema") : p \in project}
        /\ UNCHANGED points
        /\ BootNext("alterCorners")
     \/ BootCaught
  /\ UNCHANGED <<tx, clients, kind, pc, body, conn, err, status, reply, sent>>

\* ALTER TABLE project ADD COLUMN IF NOT EXISTS plan_corners JSONB
BootAlterCorners ==
  /\ boot.pc = "alterCorners"
  /\ \/ /\ Has({"project"})
        /\ schema' = schema \cup {"project.plan_corners"}
        /\ project' = {Widen(p, "plan_corners") : p \in project}
        /\ UNCHANGED points
        /\ BootNext("insert")
     \/ BootCaught
  /\ UNCHANGED <<tx, clients, kind, pc, body, conn, err, status, reply, sent>>

\* (mutant) the default row is never inserted
BootInsertOmitted ==
  /\ boot.pc = "insert"
  /\ boot' = [boot EXCEPT !.pc = "done", !.ok = TRUE]
  /\ checkedOut' = checkedOut - 1
  /\ UNCHANGED <<project, points, tx, log, clients, kind, pc, body, conn, err,
                 status, reply, sent, schema>>

\* INSERT INTO project (id) VALUES ('default') ON CONFLICT (id) DO NOTHING;
\* console.log('Database tables are ready.'); finally { client.release() }
BootInsert ==
  /\ boot.pc = "insert"
  /\ \/ /\ Has(SchemaFull)
        /\ project' = IF ProjectExists THEN project
                       ELSE project \cup {ProjectRow(Null, Null, Null, Null, Null)}
        /\ boot' = [boot EXCEPT !.pc = "done", !.ok = TRUE]
        /\ checkedOut' = checkedOut - 1
        /\ UNCHANGED <<schema, points>>
        /\ log' = Observe(log)
     \/ BootCaught
  /\ UNCHANGED <<tx, clients, kind, pc, body, conn, err, status, reply, sent>>

\* The server process is started again over the same database
\* (server.listen -> initializeDatabase())
BootRestart ==
  /\ boot.pc = "done" /\ boot.run < MaxRuns
  /\ \A r \in Reqs : pc[r] = "idle"
  /\ boot' = [pc |-> "connect", run |-> boot.run + 1, ok |-> FALSE, was |-> boot.ok,
              before |-> Store]
  /\ UNCHANGED <<project, points, tx, log, checkedOut, clients, kind, pc, body,
                 conn, err, status, reply, sent, schema>>

\* The server has just started listening over one of the databases it may
\* find; initializeDatabase has been called and nothing has been awaited
InitBoot ==
  /\ \E s \in BootStores :
       /\ schema = s.schema /\ project = s.project /\ points = s.points
       /\ boot = [pc |-> "connect", run |-> 1, ok |-> FALSE, was |-> FALSE,
                  before |-> s]
  /\ Idle

BootSteps ==
  \/ BootConnect \/ BootCreateProject \/ BootCreatePoints \/ BootCheckPoints
  \/ BootAlterPoints \/ BootCheckProject \/ BootAlterSchema \/ BootAlterCorners
  \/ BootInsert

FetchSteps(r) == FetchStart(r) \/ FetchProject(r) \/ FetchPoints(r)
PlanSteps(r) ==
  PlanStart(r) \/ PlanBegin(r) \/ PlanUpdate(r) \/ PlanDelete(r) \/ PlanCommit(r)
    \/ PlanAfter(r)
SettingsSteps(r) == SettingsStart(r) \/ SettingsQuery(r) \/ SettingsAfter(r)
UpsertSteps(r) == UpsertStart(r) \/ UpsertQuery(r) \/ UpsertAfter(r)
DeleteSteps(r) == DeleteStart(r) \/ DeleteQuery(r) \/ DeleteAfter(r)
ImportSteps(r) ==
  ImportStart(r) \/ ImportBegin(r) \/ ImportUpdate(r) \/ ImportDelete(r)
    \/ ImportInsert(r) \/ ImportCommit(r) \/ ImportAfter(r)
CommonSteps(r) == Connect(r) \/ Rollback(r) \/ Recycle(r)
ClientSteps == \E c \in Clients : ClientConnect(c) \/ ClientClosing(c) \/ ClientClose(c)

\* The whole server: every endpoint on every handler slot, clients coming
\* and going
Next ==
  \/ \E r \in Reqs :
       \/ FetchSteps(r) \/ PlanSteps(r) \/ SettingsSteps(r) \/ UpsertSteps(r)
       \/ DeleteSteps(r) \/ ImportSteps(r) \/ CommonSteps(r)
  \/ ClientSteps

SpecServer == Init /\ [][Next]_vars

\* The points table under concurrent plan replaces, upserts and deletes
NextPoints ==
  \E r \in Reqs :
    \/ PlanSteps(r) \/ UpsertSteps(r) \/ DeleteSteps(r) \/ CommonSteps(r)

SpecPoints == Init /\ [][NextPoints]_vars

\* Imports racing with upserts
NextImport ==
  \E r \in Reqs : ImportSteps(r) \/ UpsertSteps(r) \/ CommonSteps(r)

SpecImport == Init /\ [][NextImport]_vars

\* One handler at a time
Solo == {1}

\* Every write endpoint in front of clients that come and go
NextBroadcast ==
  \/ \E r \in Solo :
       \/ PlanSteps(r) \/ SettingsSteps(r) \/ UpsertSteps(r) \/ DeleteSteps(r)
       \/ ImportSteps(r) \/ CommonSteps(r)
  \/ ClientSteps

SpecBroadcast == Init /\ [][NextBroadcast]_vars

\* Every endpoint, nobody listening
NextSolo ==
  \E r \in Solo :
    \/ FetchSteps(r) \/ PlanSteps(r) \/ SettingsSteps(r) \/ UpsertSteps(r)
    \/ DeleteSteps(r) \/ ImportSteps(r) \/ CommonSteps(r)

SpecSolo == Init /\ [][NextSolo]_vars

\* Settings updates next to plan replaces, read back by concurrent fetches
NextSettings ==
  \E r \in Reqs :
    \/ SettingsSteps(r) \/ FetchSteps(r) \/ PlanSteps(r) \/ CommonSteps(r)

SpecSettings == Init /\ [][NextSettings]_vars

\* The server has started over a first-revision database that held one
\* point; initializeDatabase has run to its end (see BootAlterPoints)
InitMigrated ==
  /\ project = {ProjectRow(Null, Null, Null, Null, Null)}
  /\ points = {PointRow("p1", Null, [label |-> "a"], "g1")}
  /\ Idle
  /\ schema = SchemaFull
  /\ boot = [BootDone EXCEPT
               !.before = [schema |-> {"points"}, project |-> {},
                           points |-> {[id |-> "p1", properties |-> [label |-> "a"],
                                        geometry |-> "g1"]}]]

\* Fetches next to upserts, over the migrated database
NextRoundTrip ==
  \E r \in Reqs :
    \/ FetchSteps(r) \/ UpsertSteps(r) \/ Connect(r) \/ Recycle(r)

SpecRoundTrip == InitMigrated /\ [][NextRoundTrip]_vars

\* The server has started over a database of this revision that holds a
\* plan and one point; initializeDatabase has found nothing to do
InitStocked ==
  /\ project = {ProjectRow("u1", "d1", "d1", "s1", "c1")}
  /\ points = {PointRow("p1", Default, [label |-> "a"], "g1")}
  /\ Idle
  /\ schema = SchemaFull
  /\ boot = [BootDone EXCEPT !.before = [schema |-> schema, project |-> project,
                                         points |-> points]]

\* Fetches next to plan replaces, over a database that holds points
NextSnapshot ==
  \E r \in Reqs : FetchSteps(r) \/ PlanSteps(r) \/ CommonSteps(r)

SpecSnapshot == InitStocked /\ [][NextSnapshot]_vars

\* The schema manager alone, over every database it may find, run again at
\* each start of the process
NextBoot == BootSteps \/ BootRestart

SpecBoot == InitBoot /\ [][NextBoot]_vars

\* Requests served while initializeDatabase is still running, or has failed
NextStartup ==
  \/ BootSteps
  \/ \E r \in Solo :
       \/ FetchSteps(r) \/ PlanSteps(r) \/ SettingsSteps(r) \/ UpsertSteps(r)
       \/ DeleteSteps(r) \/ ImportSteps(r) \/ CommonSteps(r)

SpecStartup == InitBoot /\ [][NextStartup]_vars

\* Upserts and deletes of points running together, in front of clients
NextOrder ==
  \/ \E r \in Reqs :
       \/ UpsertSteps(r) \/ DeleteSteps(r) \/ Connect(r) \/ Recycle(r)
  \/ ClientSteps

SpecOrder == Init /\ [][NextOrder]_vars

\* ---------------------------------------------------------------- claims
\* What a handler caught because the store or the request body failed it
StoreFailures == {"store", "type"}

\* C1: an import that fails at its UPDATE, its DELETE or any INSERT (a store
\* error, a feature without properties, a NULL or duplicate id) has, once the
\* handler has finished, committed nothing and changed no committed row: the
\* project row and the points are as they were before it began.
C1_ImportAtomic ==
  \A r \in Reqs :
    (kind[r] = "import" /\ pc[r] = "done" /\ err[r] \in StoreFailures)
      => (~log[r].wrote /\ log[r].commits = 0)

\* C1 witness: an import failed after the loop had accepted a feature, and
\* the points stored before it are still there.
C1_Witness ==
  \E r \in Reqs :
    /\ kind[r] = "import" /\ pc[r] = "done" /\ status[r] = "500"
    /\ err[r] \in StoreFailures
    /\ body[r].left < body[r].total
    /\ ~log[r].wrote
    /\ points # {}

\* C2 (as claimed): the COMMIT of a plan replace leaves no point of the
\* project, the supplied plan reference stored and plan_corners NULL.
C2_PlanLeavesNoPoints ==
  [][\A r \in Reqs :
       (kind[r] = "plan" /\ pc[r] = "commit" /\ pc'[r] = "after")
         => /\ \A q \in points' : q.project_id # Default
            /\ \A p \in project' :
                 p.id = Default => /\ p.plan_data_url = body[r].planDataUrl
                                   /\ p.plan_corners = Null]_vars

\* C3: a plan replace is applied whole or not at all.  A replace that fails
\* at a statement has committed nothing and changed no committed row; no
\* replace commits more than once; and the one step of a replace that changes
\* committed rows stores the new reference, clears the corners and removes
\* every point its DELETE had found, together.
C3_PlanAllOrNothing ==
  /\ [](\A r \in Reqs :
          kind[r] = "plan"
            => /\ log[r].commits <= 1
               /\ (pc[r] = "done" /\ err[r] \in StoreFailures)
                    => (~log[r].wrote /\ log[r].commits = 0))
  /\ [][\A r \in Reqs :
          (kind[r] = "plan" /\ pc'[r] # pc[r]
             /\ (project' # project \/ points' # points))
            => /\ \A p \in project' :
                    p.id = Default => /\ p.plan_data_url = body[r].planDataUrl
                                      /\ p.plan_corners = Null
               /\ \A q \in points : q.project_id = Default /\ q.id \in tx[r].del
                                      => q \notin points'
               /\ tx[r].del # {} \/ points' = points]_vars

\* C3 witness: a replace has staged its UPDATE and its DELETE, then failed;
\* it waits for its ROLLBACK and the committed rows are untouched.
C3_Witness ==
  \E r \in Reqs :
    /\ kind[r] = "plan" /\ pc[r] = "rollback" /\ err[r] = "store"
    /\ tx[r].proj # {} /\ tx[r].del # {}
    /\ ~log[r].wrote
    /\ \E q \in points : q.id \in tx[r].del
    /\ \A p \in project : p.plan_data_url # body[r].planDataUrl

Writes == {"plan", "settings", "upsert", "delete", "import"}

\* The event kind each write endpoint is documented to emit
EventType(k) ==
  CASE k = "plan" -> "plan_update"
    [] k = "settings" -> "settings_update"
    [] k = "upsert" -> "point_update"
    [] k = "delete" -> "point_delete"
    [] k = "import" -> "project_import"

\* C4: the step in which a write endpoint answers 200 has sent every client
\* that is open at that moment exactly one message, of the endpoint's event
\* type, and nothing to any other client; and a message is only ever sent to
\* a client that is open when it is sent (nothing is kept for a client to
\* receive when it connects later).
C4_OneEventPerOpenClient ==
  [][/\ \A r \in Reqs :
          (kind[r] \in Writes /\ status[r] # "200" /\ status'[r] = "200")
            => \A c \in Clients :
                 sent'[r][c] =
                   IF clients[c] = "OPEN"
                     THEN <<[type |-> EventType(kind[r]), payload |-> body[r]]>>
                     ELSE <<>>
     /\ \A r \in Reqs, c \in Clients :
          Len(sent'[r][c]) > Len(sent[r][c])
            => (clients[c] = "OPEN" /\ pc'[r] # pc[r])]_vars

\* C4 witness: a write was answered 200 with one client sent its event and
\* another one, closing, sent nothing.
C4_Witness ==
  \E r \in Reqs, c1, c2 \in Clients :
    /\ kind[r] \in Writes /\ status[r] = "200"
    /\ Len(sent[r][c1]) = 1 /\ sent[r][c1][1].type = EventType(kind[r])
    /\ sent[r][c2] = <<>> /\ clients[c2] = "CLOSING"

\* C5: an event has been sent for a handler only if the store has committed
\* that handler's statement or transaction (and none is still open); a
\* handler that caught a store or body failure, could not connect, or
\* answered 400 has sent nothing.
C5_BroadcastAfterCommit ==
  \A r \in Reqs :
    /\ sent[r] # NoSent => (log[r].commits >= 1 /\ ~tx[r].active)
    /\ (err[r] \in {"connect"} \cup StoreFailures \/ status[r] = "400")
         => sent[r] = NoSent

\* C5 witness: an import's event went out after its transaction committed.
C5_Witness ==
  \E r \in Reqs, c \in Clients :
    /\ kind[r] = "import" /\ Len(sent[r][c]) = 1
    /\ log[r].commits = 1 /\ log[r].wrote

\* C6 (as claimed): once the store has committed a handler's write, the
\* handler never attempts a ROLLBACK and answers nothing but 200, whatever
\* its broadcast does.
C6_BroadcastDetached ==
  \A r \in Reqs :
    log[r].commits >= 1
      => /\ pc[r] # "rollback"
         /\ pc[r] = "done" => status[r] = "200"

Finished(r) == pc[r] \in {"idle", "done"}

\* C7 (as claimed): a handler that has finished holds no connection, and
\* with no request in flight no connection is checked out.
C7_ConnectionsReleased ==
  /\ \A r \in Reqs : Finished(r) => conn[r] # "held"
  /\ (\A r \in Reqs : Finished(r)) => checkedOut = 0

\* What the faults of the environment (the pool, the store, a socket) make a
\* handler catch
Faults == {"connect", "store", "send"}

\* C8: never two stored points share an id; and the statement of an upsert,
\* when the store accepts it, leaves exactly one point with the request's id,
\* carrying the request's properties (without the id) and geometry, adds no
\* row if the id was stored already, and leaves the points of every other id
\* as they were (as does the statement of a delete of another id).
C8_UpsertKeyedById ==
  /\ [](\A q1, q2 \in points : q1.id = q2.id => q1 = q2)
  /\ [][\A r \in Reqs :
          /\ (kind[r] = "upsert" /\ pc[r] = "query" /\ pc'[r] = "after")
               => LET id == FeatureId(body[r].properties)
                      now == {q \in points' : q.id = id}
                  IN  /\ Cardinality(now) = 1
                      /\ \A q \in now :
                           /\ q.properties = StripId(body[r].properties)
                           /\ q.geometry = body[r].geometry
                      /\ (\E q \in points : q.id = id)
                           => Cardinality(points') = Cardinality(points)
                      /\ {q \in points' : q.id # id} = {q \in points : q.id # id}
          /\ (kind[r] = "delete" /\ pc[r] = "query" /\ pc'[r] # pc[r])
               => {q \in points' : q.id # body[r].id}
                    = {q \in points : q.id # body[r].id}]_vars

\* C8 witness: two upserts of one id with different geometries have both
\* been accepted; one point has that id and it carries the later one's data.
C8_Witness ==
  \E r1, r2 \in Reqs :
    /\ kind[r1] = "upsert" /\ pc[r1] = "done" /\ status[r1] = "200"
    /\ kind[r2] = "upsert" /\ pc[r2] = "after"
    /\ FeatureId(body[r1].properties) = FeatureId(body[r2].properties)
    /\ body[r1].geometry # body[r2].geometry
    /\ Cardinality(points) = 1
    /\ \A q \in points :
         /\ q.id = FeatureId(body[r2].properties)
         /\ q.geometry = body[r2].geometry
         /\ q.properties = StripId(body[r2].properties)

\* C9: a delete fails only on a fault of the pool, the store or a socket,
\* never because its id is not stored; its statement changes nothing but the
\* point with its id, leaves no point with that id when the store accepts
\* it, and leaves the project row and the points exactly as they are when no
\* point has that id (so a second delete of the id changes nothing).
C9_DeleteIdempotent ==
  /\ [](\A r \in Reqs :
          (kind[r] = "delete" /\ pc[r] = "done")
            => (status[r] = "200" \/ err[r] \in Faults))
  /\ [][\A r \in Reqs :
          (kind[r] = "delete" /\ pc[r] = "query" /\ pc'[r] # pc[r])
            => /\ project' = project
               /\ {q \in points' : q.id # body[r].id}
                    = {q \in points : q.id # body[r].id}
               /\ pc'[r] = "after" => ~\E q \in points' : q.id = body[r].id
               /\ (~\E q \in points : q.id = body[r].id)
                    => /\ points' = points
                       /\ pc'[r] = "after" \/ err'[r] \in Faults]_vars

\* C9 witness: two deletes of one id were both answered 200; one removed the
\* point, the other found none and changed nothing.
C9_Witness ==
  \E r1, r2 \in Reqs :
    /\ kind[r1] = "delete" /\ pc[r1] = "done" /\ status[r1] = "200"
    /\ kind[r2] = "delete" /\ pc[r2] = "done" /\ status[r2] = "200"
    /\ body[r1].id = body[r2].id
    /\ log[r1].wrote
    /\ ~log[r2].wrote /\ log[r2].commits = 1

SettingsFields == {"point_schema", "plan_corners", "opacity"}

\* C10 (as claimed): a settings body that carries any of point_schema,
\* plan_corners, opacity is not answered 400, and when the store accepts its
\* statement the project row reads back every field the body carries with
\* the value it carries.
C10_SettingsStoresSupplied ==
  /\ [](\A r \in Reqs :
          (kind[r] = "settings" /\ \E f \in SettingsFields : body[r][f] # Absent)
            => status[r] # "400")
  /\ [][\A r \in Reqs :
          (kind[r] = "settings" /\ pc[r] = "query" /\ pc'[r] = "after")
            => \A f \in SettingsFields :
                 body[r][f] # Absent
                   => \A p \in project' :
                        p.id = Default => (f \in DOMAIN p /\ p[f] = body[r][f])]_vars

\* C11: no step of a settings request changes the points, the number of
\* project rows, or, in any project row, the id, the plan image and its
\* dimensions, or whichever of point_schema / plan_corners the body does
\* not carry (a body that carries only opacity changes neither).
C11_SettingsFrame ==
  [][\A r \in Reqs :
       (kind'[r] = "settings" /\ pc'[r] # pc[r])
         => /\ points' = points
            /\ Cardinality(project') = Cardinality(project)
            /\ \A p \in project : \E n \in project' :
                 /\ n.id = p.id
                 /\ n.plan_data_url = p.plan_data_url
                 /\ n.plan_width = p.plan_width
                 /\ n.plan_height = p.plan_height
                 /\ \A c \in {"point_schema", "plan_corners"} :
                      body'[r][c] = Absent => n[c] = p[c]]_vars

\* C11 witness: the store has accepted a settings update that carries a
\* point_schema and no plan_corners, and the corners set earlier are in place.
C11_Witness ==
  \E r \in Reqs :
    /\ kind[r] = "settings" /\ pc[r] = "after"
    /\ body[r].point_schema = "s1" /\ body[r].plan_corners = Absent
    /\ \A p \in project : p.plan_corners = "c1" /\ p.point_schema = "s1"

\* C12: a settings request whose body carries neither point_schema nor
\* plan_corners is answered 400 on arrival: it never holds a connection, the
\* store commits nothing for it, it sends no event, and its arrival leaves
\* the project row and the points as they are.
C12_NoFieldRejected ==
  /\ [](\A r \in Reqs :
          (/\ kind[r] = "settings"
           /\ body[r].point_schema = Absent /\ body[r].plan_corners = Absent)
            => /\ pc[r] = "done" /\ status[r] = "400"
               /\ conn[r] = "none"
               /\ log[r] = NoLog
               /\ sent[r] = NoSent)
  /\ [][\A r \in Reqs :
          (kind[r] = "idle" /\ kind'[r] = "settings" /\ status'[r] = "400")
            => (project' = project /\ points' = points)]_vars

\* C12 witness: a body without any field was answered 400 while a client
\* was connected and open.
C12_Witness ==
  \E r \in Reqs :
    /\ kind[r] = "settings" /\ pc[r] = "done" /\ status[r] = "400"
    /\ \A f \in SettingsFields : body[r][f] = Absent
    /\ \E c \in Clients : clients[c] = "OPEN"

\* C13: once initializeDatabase has run to its end, the project table holds
\* exactly one row and its id is 'default'; and no step of a request handler
\* adds or removes a project row, whatever the table holds.
C13_SingletonProject ==
  /\ []((boot.pc = "done" /\ boot.ok)
          => (Cardinality(project) = 1 /\ \A p \in project : p.id = Default))
  /\ [][boot' = boot
          => /\ {p.id : p \in project'} = {p.id : p \in project}
             /\ Cardinality(project') = Cardinality(project)]_vars

\* C13 witness: over a database that had no project row, initializeDatabase
\* has run to its end and an import has since been committed.
C13_Witness ==
  /\ boot.pc = "done" /\ boot.ok /\ boot.before.project = {}
  /\ \E r \in Reqs :
       /\ kind[r] = "import" /\ pc[r] = "after" /\ log[r].commits = 1
       /\ body[r].total > 0
  /\ Cardinality(project) = 1

\* The awaits of a handler at which a statement is with the store
StatementPcs ==
  {"query", "points", "begin", "update", "delete", "insert", "commit", "rollback"}

\* C14 (as claimed): whenever a request handler has a statement with the
\* store, the default project row exists.
C14_SingletonBeforeRequests ==
  \A r \in Reqs : pc[r] \in StatementPcs => ProjectExists

\* A row as it reads once the columns `cols` exist: NULL in those it lacked
Migrated(row, cols) ==
  [c \in (DOMAIN row) \cup cols |-> IF c \in DOMAIN row THEN row[c] ELSE Null]

\* C15: a run of initializeDatabase that reaches its end, from whichever
\* database, leaves both tables with every column, the default project row,
\* and every row the tables held (with NULL in the columns it lacked) and
\* no other; and a run over a database that a completed run has left
\* changes neither the schema nor any row.
C15_SchemaManagerIdempotent ==
  /\ []((boot.pc = "done" /\ boot.ok)
          => /\ schema = SchemaFull
             /\ ProjectExists
             /\ points = {Migrated(q, {"project_id"}) : q \in boot.before.points}
             /\ LET old == {Migrated(p, {"point_schema", "plan_corners"}) :
                              p \in boot.before.project}
                IN  project = IF old = {}
                                THEN {ProjectRow(Null, Null, Null, Null, Null)}
                                ELSE old)
  /\ [][(boot.run > 1 /\ boot.was)
          => (schema' = schema /\ project' = project /\ points' = points)]_vars

\* C15 witness: over a first-revision database with a point, a first run and
\* then a second run have both reached their end.
C15_Witness ==
  /\ boot.pc = "done" /\ boot.ok /\ boot.run = 2 /\ boot.was
  /\ \E q \in points : q.project_id = Null
  /\ ProjectExists

\* C16 (as claimed): a run of initializeDatabase that caught a failure
\* leaves the schema and the rows as they were when it started.
C16_MigrationAllOrNothing ==
  (boot.pc = "done" /\ ~boot.ok)
    => (schema = boot.before.schema /\ project = boot.before.project
        /\ points = boot.before.points)

\* C17 (as claimed): no stored point keeps an id among its properties; and
\* when a fetch reads the points after an upsert was answered 200, while the
\* row that upsert wrote is still the stored row of its id, the answer has
\* exactly one feature with that id, and its properties (id included) and
\* geometry are the ones submitted.
C17_UpsertFetchRoundTrip ==
  /\ [](\A q \in points : "id" \notin DOMAIN q.properties)
  /\ [][\A f, u \in Reqs :
          (/\ kind[f] = "fetch" /\ pc[f] = "points" /\ status'[f] = "200"
           /\ kind[u] = "upsert" /\ pc[u] = "done" /\ status[u] = "200"
           /\ \E q \in points :
                /\ q.id = FeatureId(body[u].properties)
                /\ q.properties = StripId(body[u].properties)
                /\ q.geometry = body[u].geometry)
            => LET hits == {x \in reply'[f].features :
                              FeatureId(x.properties) = FeatureId(body[u].properties)}
               IN  /\ Cardinality(hits) = 1
                   /\ \A x \in hits : /\ x.properties = body[u].properties
                                      /\ x.geometry = body[u].geometry]_vars

\* C18 (as claimed): a handler that has ended has sent a response.
C18_EveryRequestAnswered ==
  \A r \in Reqs : pc[r] = "done" => status[r] # "none"

\* C19 (as claimed): the project row and the points a fetch returns with
\* status 200 were together the committed contents of the two tables at
\* some moment between its two reads.
C19_FetchSnapshot ==
  \A r \in Reqs :
    (kind[r] = "fetch" /\ pc[r] = "done" /\ status[r] = "200") => ~log[r].torn

\* C20 (as claimed): once initializeDatabase has run to its end, every
\* stored point has project_id = 'default'.
C20_PointsBelongToDefault ==
  (boot.pc = "done" /\ boot.ok) => \A q \in points : q.project_id = Default

\* The id a point write is about
PointIdOf(r) ==
  IF kind[r] = "upsert" THEN FeatureId(body[r].properties) ELSE body[r].id

\* The stored state of handler r's id is what r's event says
AgreesWithStore(r) ==
  IF kind[r] = "upsert"
    THEN \E q \in points :
           /\ q.id = PointIdOf(r)
           /\ q.properties = StripId(body[r].properties)
           /\ q.geometry = body[r].geometry
    ELSE ~\E q \in points : q.id = PointIdOf(r)

\* C21 (as claimed): when a point write sends its event to a client after
\* another write of the same id has sent its own to that client, and no
\* other write is in flight, it is the later of the two to have committed:
\* the stored state of the id is the one its event announces.
C21_EventsInCommitOrder ==
  [][\A r, o \in Reqs, c \in Clients :
       (/\ r # o
        /\ kind[r] \in {"upsert", "delete"} /\ pc[r] = "after"
        /\ Len(sent'[r][c]) > Len(sent[r][c])
        /\ kind[o] \in {"upsert", "delete"} /\ pc[o] = "done"
        /\ Len(sent[o][c]) = 1
        /\ PointIdOf(o) = PointIdOf(r))
         => AgreesWithStore(r)]_vars

\* C22 (as claimed): when a settings_update event is sent, every field its
\* payload carries is a column of the project row and holds the payload's
\* value.
C22_SettingsEventPersisted ==
  [][\A r \in Reqs, c \in Clients :
       (kind[r] = "settings" /\ Len(sent'[r][c]) > Len(sent[r][c]))
         => LET payload == sent'[r][c][Len(sent'[r][c])].payload
            IN  \A f \in SettingsFields :
                  payload[f] # Absent
                    => \A p \in project :
                         p.id = Default => (f \in DOMAIN p /\ p[f] = payload[f])]_vars

====
